---- MODULE Spec2Model ----
(***************************************************************************)
(* Model of encryption_tool.py: a pixel image encryptor/decryptor with two *)
(* keyed modes.  swap permutes the pixels with a shuffle seeded from the   *)
(* passphrase, xor combines the raw bytes with an iterated-hash keystream. *)
(*                                                                         *)
(* hashlib.sha256 and random.Random are library code.  They are modelled   *)
(* by small deterministic stand-ins of the same shape: Sha256 maps a byte  *)
(* string to a digest of DigestSize bytes, and the generator is a linear   *)
(* congruential generator behind the getrandbits / _randbelow / shuffle    *)
(* algorithms of CPython's random module.  Python lists are 0-based; the   *)
(* model keeps 0-based index VALUES in 1-based TLA+ sequences.             *)
(***************************************************************************)
EXTENDS Integers, Sequences, FiniteSets, TLC

\* ------------------------------------------------------------------ bounds
\* Largest number of pixels of an input image.
MaxPixels == 3
\* Bytes of a digest of the stand-in hash (sha256 has 32).
DigestSize == 2
\* Largest length asked of a direct keystream_bytes call.
MaxKsLen == 9
\* Largest extension k of the prefix law keystream_bytes(P, L + k).
MaxExtra == 3
\* Largest seed given to a direct permutation generation.
MaxSeed == 40

\* ------------------------------------------------------- program constants
\* Channels of an 'RGBA' pixel.
Channels == 4
\* Bytes of the digest that make the seed: h[:8].
SeedBytes == 8

\* The invocations of the program that may run side by side.
Procs == {1, 2}

\* Passphrases, as sequences of Unicode code points: "k", "A", "e-acute".
Keys == {<<107>>, <<65>>, <<233>>}

\* The passphrases given on the command line.
CliKeys == {<<107>>, <<233>>}

Operations == {"encrypt", "decrypt"}

Modes == {"swap", "xor"}

\* ------------------------------------------------------------ small helpers
Min(a, b) == IF a < b THEN a ELSE b

Max(a, b) == IF a > b THEN a ELSE b

RECURSIVE Pow2(_)
Pow2(k) == IF k = 0 THEN 1 ELSE 2 * Pow2(k - 1)

\* Python's s[:k]: the first k elements, or all but the last -k when k < 0.
PySliceTo(s, k) ==
    IF k >= 0 THEN SubSeq(s, 1, Min(k, Len(s)))
    ELSE SubSeq(s, 1, Max(0, Len(s) + k))

\* a ^ b on 8-bit values.
RECURSIVE XorBits(_, _, _)
XorBits(a, b, w) ==
    IF w = 0 THEN 0
    ELSE (((a % 2) + (b % 2)) % 2) + 2 * XorBits(a \div 2, b \div 2, w - 1)

Xor8(a, b) == XorBits(a, b, 8)

\* str.encode('utf-8') of a sequence of code points below 65536.
RECURSIVE Utf8Encode(_)
Utf8Encode(cps) ==
    IF cps = <<>> THEN <<>>
    ELSE LET c == Head(cps)
             enc == IF c < 128 THEN <<c>>
                    ELSE IF c < 2048 THEN <<192 + (c \div 64), 128 + (c % 64)>>
                    ELSE <<224 + (c \div 4096), 128 + ((c \div 64) % 64), 128 + (c % 64)>>
         IN enc \o Utf8Encode(Tail(cps))

\* int.from_bytes(b, 'big').
RECURSIVE FromBytesBig(_, _)
FromBytesBig(b, acc) ==
    IF b = <<>> THEN acc ELSE FromBytesBig(Tail(b), (acc * 256) + Head(b))

\* -------------------------------------------------- hashlib.sha256 stand-in
RECURSIVE HashFold(_, _)
HashFold(b, h) ==
    IF b = <<>> THEN h ELSE HashFold(Tail(b), ((h * 33) + Head(b) + 1) % 65536)

DigestByte(h, i) ==
    ((h * (57 + 2 * i)) \div (IF i % 2 = 1 THEN 1 ELSE 256)) % 256

\* hashlib.sha256(b).digest(): DigestSize bytes, a function of b alone.
Sha256(b) ==
    LET h == HashFold(b, 5381 + Len(b))
    IN [i \in 1..DigestSize |-> DigestByte(h, i)]

\* ------------------------------------------------------------ key derivation
derive_seed_from_key(key) ==
    LET h == Sha256(Utf8Encode(key))
    IN FromBytesBig(PySliceTo(h, SeedBytes), 0)

\* line 21: the state before the loop.
KsInitState(key) == Sha256(Utf8Encode(key))

\* Mutant: the loop runs on the magnitude of length.
KsLoopCond_m(out, length) == Len(out) < (IF length < 0 THEN -length ELSE length)

\* line 22: while len(out) < length.
KsLoopCond(out, length) == Len(out) < length

\* lines 23-24: one iteration of the hash chain.
KsIterate(st, out) ==
    LET s2 == Sha256(st) IN [state |-> s2, out |-> out \o s2]

\* Mutant: the last length bytes, out[-length:], instead of the first.
KsTruncate_m(out, length) ==
    IF length <= 0 THEN <<>> ELSE SubSeq(out, Max(1, Len(out) - length + 1), Len(out))

\* Mutant: no truncation.
KsTruncate_whole(out, length) == out

\* line 25: bytes(out[:length]).
KsTruncate(out, length) == PySliceTo(out, length)

RECURSIVE KsRun(_, _, _)
KsRun(st, out, length) ==
    IF KsLoopCond(out, length)
    THEN LET it == KsIterate(st, out) IN KsRun(it.state, it.out, length)
    ELSE KsTruncate(out, length)

keystream_bytes(key, length) == KsRun(KsInitState(key), <<>>, length)

\* ------------------------------------------------- random.Random stand-in
\* random.Random(seed): the generator state after seeding.
RandomSeed(seed) == seed % 65536

\* The generator's transition function.
RandomNext(st) == ((25173 * st) + 13849) % 65536

\* int.bit_length().
RECURSIVE BitLength(_)
BitLength(m) == IF m = 0 THEN 0 ELSE 1 + BitLength(m \div 2)

\* getrandbits(k), k <= 16: the top k bits of the next state.
GetRandBits(st, k) ==
    LET s2 == RandomNext(st) IN [r |-> s2 \div Pow2(16 - k), st |-> s2]

\* _randbelow_with_getrandbits(m): draw k bits until the value is below m.
RECURSIVE RandBelowLoop(_, _, _)
RandBelowLoop(st, m, k) ==
    LET g == GetRandBits(st, k)
    IN IF g.r >= m THEN RandBelowLoop(g.st, m, k) ELSE g

RandBelow(st, m) == RandBelowLoop(st, m, BitLength(m))

\* Mutant: x[i] = x[j] without the exchange.
SwapAt_m(x, i, j) == [x EXCEPT ![i + 1] = x[j + 1]]

\* x[i], x[j] = x[j], x[i] on 0-based positions.
SwapAt(x, i, j) == [x EXCEPT ![i + 1] = x[j + 1], ![j + 1] = x[i + 1]]

\* One pass of the loop of shuffle: j = randbelow(i + 1), then the swap.
ShuffleStep(x, i, st) ==
    LET g == RandBelow(st, i + 1) IN [x |-> SwapAt(x, i, g.r), st |-> g.st]

\* for i in reversed(range(1, len(x))): ...
RECURSIVE ShuffleFrom(_, _, _)
ShuffleFrom(x, i, st) ==
    IF i < 1 THEN [x |-> x, st |-> st]
    ELSE LET s == ShuffleStep(x, i, st) IN ShuffleFrom(s.x, i - 1, s.st)

\* rnd.shuffle(x): the shuffled list and the generator state left behind.
Shuffle(x, st) == ShuffleFrom(x, Len(x) - 1, st)

\* list(range(n)).
Range(n) == [i \in 1..n |-> i - 1]

\* ------------------------------------------------------------- image model
\* An absent list element: [None] * n.
None == <<>>

\* The k-th pixel of an input image, an RGBA tuple of bytes.
Pixel(k) == <<(37 * k) % 256, (200 + k) % 256, (16 * k) % 256, 255>>

\* The images given as input files: one of each pixel count.
InputImages == {[i \in 1..n |-> Pixel(i)] : n \in 0..MaxPixels}

\* img.tobytes(): the channel bytes of the pixels in order.
RECURSIVE ToBytes(_)
ToBytes(px) == IF px = <<>> THEN <<>> ELSE Head(px) \o ToBytes(Tail(px))

\* Image.frombytes(mode, size, data): Channels bytes to a pixel.
FromBytes(data) ==
    [i \in 1..(Len(data) \div Channels) |->
        SubSeq(data, (Channels * (i - 1)) + 1, Channels * i)]

\* Mutant: the pixels scattered, permuted[indices[i]] = pixels[i].
ApplyPerm_m(pixels, indices) ==
    [j \in 1..Len(indices) |-> pixels[CHOOSE i \in 1..Len(indices) : indices[i] = j - 1]]

\* line 43: [pixels[i] for i in indices].
ApplyPerm(pixels, indices) == [i \in 1..Len(indices) |-> pixels[indices[i] + 1]]

\* Mutant: the forward gather again, orig[i] = pixels[indices[i]].
InvertWrite_m(orig, pixels, indices, i) ==
    [orig EXCEPT ![i + 1] = pixels[indices[i + 1] + 1]]

\* line 58: orig[indices[i]] = pixels[i], i 0-based.
InvertWrite(orig, pixels, indices, i) ==
    [orig EXCEPT ![indices[i + 1] + 1] = pixels[i + 1]]

\* Mutant: data[i] += ks[i] on bytes.
XorWrite_m(data, ks, i) == [data EXCEPT ![i + 1] = (data[i + 1] + ks[i + 1]) % 256]

\* line 32: data[i] ^= ks[i], i 0-based.
XorWrite(data, ks, i) == [data EXCEPT ![i + 1] = Xor8(data[i + 1], ks[i + 1])]

\* ------------------------------------------------------------------- state
VARIABLES
    proc,       \* proc[p]: the arguments, position and locals of invocation p
    rnd,        \* rnd[s]: the state of generator instance s
    ks_key, ks_length, ks_state, ks_out, ks_pc, ks_ret,   \* a direct keystream_bytes call
    g_n, g_seed, g_indices, g_rnd, g_pc                   \* a direct permutation generation

vars == <<proc, rnd, ks_key, ks_length, ks_state, ks_out, ks_pc, ks_ret,
          g_n, g_seed, g_indices, g_rnd, g_pc>>

ksVars == <<ks_key, ks_length, ks_state, ks_out, ks_pc, ks_ret>>

gVars == <<g_n, g_seed, g_indices, g_rnd, g_pc>>

procVars == <<proc, rnd>>

\* Where an input file came from: a fresh image, or the output of an earlier
\* encrypt invocation (its arguments, input and permutation are remembered).
NoProv == [operation |-> "none", mode |-> "none", key |-> <<>>, img |-> <<>>,
           indices |-> <<>>]

ProvOf(r) == [operation |-> r.operation, mode |-> r.mode, key |-> r.key,
              img |-> r.img, indices |-> r.indices]

IdleProc == [operation |-> "none", mode |-> "none", key |-> <<>>, img |-> <<>>,
             prov |-> NoProv, pc |-> "idle", pixels |-> <<>>, n |-> 0, seed |-> 0,
             indices |-> <<>>, data |-> <<>>, ks |-> <<>>, i |-> 0, out |-> <<>>,
             overlap |-> FALSE]

\* An invocation between its start and its save.
Running(q) == proc[q].pc \notin {"idle", "done"}

\* History: invocation p has taken a step while another invocation was running.
Overlaps(p) == proc[p].overlap \/ \E q \in Procs \ {p} : Running(q)

\* Mutant: the operation is looked at first, so xor decrypt runs invert_swap.
Dispatch_m(mode, operation) ==
    IF operation = "decrypt" THEN "invert_swap"
    ELSE IF mode = "xor" THEN "mode_xor" ELSE "mode_swap"

\* lines 82-85: the function main calls for (mode, operation).
Dispatch(mode, operation) ==
    IF mode = "xor" THEN "mode_xor"
    ELSE IF operation = "encrypt" THEN "mode_swap" ELSE "invert_swap"

\* Mutant: the module-level generator, random.seed / random.shuffle.
RndSlot_m(p) == 1

\* line 40: rnd is a generator instance of its own for each call.
RndSlot(p) == p

\* lines 72-85: the arguments are parsed, the image loaded, the mode entered.
Enter(operation, mode, key, img, prov) ==
    [IdleProc EXCEPT !.operation = operation, !.mode = mode, !.key = key,
                     !.img = img, !.prov = prov, !.pc = Dispatch(mode, operation)]

ProcInit == proc = [p \in Procs |-> IdleProc] /\ rnd = [p \in Procs |-> 0]

\* main on a fresh input image.
MainFresh(p) ==
    /\ proc[p].pc \in {"idle", "done"}
    /\ \E operation \in Operations, mode \in Modes, key \in CliKeys, img \in InputImages :
          proc' = [proc EXCEPT ![p] = Enter(operation, mode, key, img, NoProv)]
    /\ UNCHANGED rnd

\* main decrypting the output file of a finished encrypt invocation q, in the
\* same mode, with any key.
MainChained(p) ==
    /\ proc[p].pc \in {"idle", "done"}
    /\ \E q \in Procs, key \in CliKeys :
          /\ proc[q].pc = "done"
          /\ proc[q].operation = "encrypt"
          /\ proc[q].prov = NoProv
          /\ proc' = [proc EXCEPT ![p] =
                Enter("decrypt", proc[q].mode, key, proc[q].out, ProvOf(proc[q]))]
    /\ UNCHANGED rnd

\* mode_swap, lines 36-40.
SwapSeed(p) ==
    /\ proc[p].pc = "mode_swap"
    /\ LET seed == derive_seed_from_key(proc[p].key)
       IN /\ proc' = [proc EXCEPT ![p].pixels = proc[p].img,
                                  ![p].n = Len(proc[p].img),
                                  ![p].seed = seed,
                                  ![p].pc = "swap_shuffle",
                                  ![p].overlap = Overlaps(p)]
          /\ rnd' = [rnd EXCEPT ![RndSlot(p)] = RandomSeed(seed)]

\* mode_swap, lines 41-42.
SwapShuffle(p) ==
    /\ proc[p].pc = "swap_shuffle"
    /\ LET s == Shuffle(Range(proc[p].n), rnd[RndSlot(p)])
       IN /\ proc' = [proc EXCEPT ![p].indices = s.x, ![p].pc = "swap_permute",
                                  ![p].overlap = Overlaps(p)]
          /\ rnd' = [rnd EXCEPT ![RndSlot(p)] = s.st]

\* mode_swap, lines 43-46, and the save of line 87.
SwapPermute(p) ==
    /\ proc[p].pc = "swap_permute"
    /\ proc' = [proc EXCEPT ![p].out = ApplyPerm(proc[p].pixels, proc[p].indices),
                            ![p].pc = "done",
                            ![p].overlap = Overlaps(p)]
    /\ rnd' = [rnd EXCEPT ![RndSlot(p)] = 0]

\* invert_swap, lines 49-53.
InvSeed(p) ==
    /\ proc[p].pc = "invert_swap"
    /\ LET seed == derive_seed_from_key(proc[p].key)
       IN /\ proc' = [proc EXCEPT ![p].pixels = proc[p].img,
                                  ![p].n = Len(proc[p].img),
                                  ![p].seed = seed,
                                  ![p].pc = "inv_shuffle",
                                  ![p].overlap = Overlaps(p)]
          /\ rnd' = [rnd EXCEPT ![RndSlot(p)] = RandomSeed(seed)]

\* invert_swap, lines 54-56.
InvShuffle(p) ==
    /\ proc[p].pc = "inv_shuffle"
    /\ LET s == Shuffle(Range(proc[p].n), rnd[RndSlot(p)])
       IN /\ proc' = [proc EXCEPT ![p].indices = s.x,
                                  ![p].data = [k \in 1..proc[p].n |-> None],
                                  ![p].i = 0,
                                  ![p].pc = "inv_loop",
                                  ![p].overlap = Overlaps(p)]
          /\ rnd' = [rnd EXCEPT ![RndSlot(p)] = s.st]

\* invert_swap, lines 57-58: one pass of the loop.
InvLoop(p) ==
    /\ proc[p].pc = "inv_loop"
    /\ proc[p].i < proc[p].n
    /\ proc' = [proc EXCEPT
          ![p].data = InvertWrite(proc[p].data, proc[p].pixels, proc[p].indices, proc[p].i),
          ![p].i = proc[p].i + 1,
          ![p].overlap = Overlaps(p)]
    /\ UNCHANGED rnd

\* invert_swap, lines 59-61, and the save of line 87.
InvRet(p) ==
    /\ proc[p].pc = "inv_loop"
    /\ proc[p].i >= proc[p].n
    /\ proc' = [proc EXCEPT ![p].out = proc[p].data, ![p].pc = "done",
                            ![p].overlap = Overlaps(p)]
    /\ rnd' = [rnd EXCEPT ![RndSlot(p)] = 0]

\* mode_xor, lines 28-30.
XorKeystream(p) ==
    /\ proc[p].pc = "mode_xor"
    /\ LET data == ToBytes(proc[p].img)
       IN proc' = [proc EXCEPT ![p].data = data,
                               ![p].ks = keystream_bytes(proc[p].key, Len(data)),
                               ![p].i = 0,
                               ![p].pc = "xor_loop",
                               ![p].overlap = Overlaps(p)]
    /\ UNCHANGED rnd

\* mode_xor, lines 31-32: one pass of the loop.
XorLoop(p) ==
    /\ proc[p].pc = "xor_loop"
    /\ proc[p].i < Len(proc[p].data)
    /\ proc' = [proc EXCEPT ![p].data = XorWrite(proc[p].data, proc[p].ks, proc[p].i),
                            ![p].i = proc[p].i + 1,
          ![p].overlap = Overlaps(p)]
    /\ UNCHANGED rnd

\* mode_xor, line 33, and the save of line 87.
XorRet(p) ==
    /\ proc[p].pc = "xor_loop"
    /\ proc[p].i >= Len(proc[p].data)
    /\ proc' = [proc EXCEPT ![p].out = FromBytes(proc[p].data), ![p].pc = "done",
                            ![p].overlap = Overlaps(p)]
    /\ UNCHANGED rnd

ProcNext ==
    \E p \in Procs :
        \/ MainFresh(p)
        \/ MainChained(p)
        \/ SwapSeed(p)
        \/ SwapShuffle(p)
        \/ SwapPermute(p)
        \/ InvSeed(p)
        \/ InvShuffle(p)
        \/ InvLoop(p)
        \/ InvRet(p)
        \/ XorKeystream(p)
        \/ XorLoop(p)
        \/ XorRet(p)

\* --------------------------------------------- a direct keystream_bytes call
KsIdle ==
    /\ ks_key = <<>> /\ ks_length = 0 /\ ks_state = <<>> /\ ks_out = <<>>
    /\ ks_pc = "idle" /\ ks_ret = <<>>

\* lines 19-21: the call, with any key and any length, negative ones included.
KsEnter(key, length) ==
    /\ ks_key' = key
    /\ ks_length' = length
    /\ ks_out' = <<>>
    /\ ks_state' = KsInitState(key)
    /\ ks_pc' = "loop"
    /\ ks_ret' = <<>>

KsCall ==
    /\ ks_pc \in {"idle", "returned"}
    /\ \E key \in Keys, length \in (-2)..MaxKsLen : KsEnter(key, length)

\* lines 22-24: one pass of the loop.
KsLoop ==
    /\ ks_pc = "loop"
    /\ KsLoopCond(ks_out, ks_length)
    /\ LET it == KsIterate(ks_state, ks_out)
       IN ks_state' = it.state /\ ks_out' = it.out
    /\ UNCHANGED <<ks_key, ks_length, ks_pc, ks_ret>>

\* line 25: the return.
KsReturn ==
    /\ ks_pc = "loop"
    /\ ~KsLoopCond(ks_out, ks_length)
    /\ ks_ret' = KsTruncate(ks_out, ks_length)
    /\ ks_pc' = "returned"
    /\ UNCHANGED <<ks_key, ks_length, ks_state, ks_out>>

KsNext == (KsCall \/ KsLoop \/ KsReturn) /\ UNCHANGED <<procVars, gVars>>

\* ------------------------------------------ a direct permutation generation
GIdle == g_n = 0 /\ g_seed = 0 /\ g_indices = <<>> /\ g_rnd = 0 /\ g_pc = "idle"

\* lines 38-40 with any pixel count and any seed.
GSeed ==
    /\ g_pc \in {"idle", "shuffled"}
    /\ \E n \in 0..MaxPixels, seed \in 0..MaxSeed :
          /\ g_n' = n
          /\ g_seed' = seed
          /\ g_rnd' = RandomSeed(seed)
          /\ g_indices' = Range(n)
          /\ g_pc' = "seeded"

\* line 42.
GShuffle ==
    /\ g_pc = "seeded"
    /\ LET s == Shuffle(g_indices, g_rnd)
       IN g_indices' = s.x /\ g_rnd' = s.st
    /\ g_pc' = "shuffled"
    /\ UNCHANGED <<g_n, g_seed>>

GNext == (GSeed \/ GShuffle) /\ UNCHANGED <<procVars, ksVars>>

\* ---------------------------------------------------------- specifications
Init == ProcInit /\ KsIdle /\ GIdle

Next == ProcNext /\ UNCHANGED <<ksVars, gVars>>

\* The program: invocations of main, their steps interleaved.
Spec == Init /\ [][Next]_vars

\* keystream_bytes called directly.
SpecKS == Init /\ [][KsNext]_vars

\* The permutation generated directly from (n, seed).
SpecPerm == Init /\ [][GNext]_vars

\* The program with its loops run to completion: Python runs a call's
\* statements one after another until it returns.
SpecKSLive == SpecKS /\ WF_ksVars(KsLoop) /\ WF_ksVars(KsReturn)

\* ------------------------------------------------------------------ claims
Done(p) == proc[p].pc = "done"

\* The permutation of invocation p has been generated.
Shuffled(p) ==
    /\ proc[p].mode = "swap"
    /\ proc[p].pc \in {"swap_permute", "inv_loop", "done"}

\* The input of p is the output of an encrypt run with the key p was given.
SameKeyRoundTrip(p) ==
    /\ proc[p].operation = "decrypt"
    /\ proc[p].prov.operation = "encrypt"
    /\ proc[p].prov.key = proc[p].key

\* perm is not its own inverse.
NotInvolution(perm) == \E i \in 1..Len(perm) : perm[perm[i] + 1] # i - 1

\* The permutation of (n, key) from a generator nothing else touches.
FreshPerm(n, key) == Shuffle(Range(n), RandomSeed(derive_seed_from_key(key))).x

\* buffer[i] XOR keystream[i] at every position.
XorAll(data, ks) == [i \in 1..Len(data) |-> Xor8(data[i], ks[i])]

XorTransform(img, key) ==
    LET data == ToBytes(img)
    IN FromBytes(XorAll(data, keystream_bytes(key, Len(data))))

\* The pixels placed back: position perm[i] of the result holds px[i].
Unpermute(px, perm) ==
    [j \in 1..Len(px) |-> px[CHOOSE i \in 1..Len(perm) : perm[i] = j - 1]]

\* What one invocation produces when it runs alone.
Alone(operation, mode, key, img) ==
    IF mode = "xor" THEN XorTransform(img, key)
    ELSE IF operation = "encrypt" THEN ApplyPerm(img, FreshPerm(Len(img), key))
    ELSE Unpermute(img, FreshPerm(Len(img), key))

\* C1: swap round trip.  A finished swap decrypt whose input is the output of
\* a swap encrypt of B with the same key has produced B, position by position.
C1_SwapRoundTrip ==
    \A p \in Procs :
        (Done(p) /\ proc[p].mode = "swap" /\ SameKeyRoundTrip(p))
            => proc[p].out = proc[p].prov.img

\* A round trip of MaxPixels pixels through a permutation that is not its own
\* inverse, so that the encrypted image differs from B, has finished.
C1_Witness ==
    \E p \in Procs :
        /\ Done(p) /\ proc[p].mode = "swap" /\ SameKeyRoundTrip(p)
        /\ Len(proc[p].img) = MaxPixels
        /\ proc[p].img # proc[p].prov.img
        /\ NotInvolution(proc[p].indices)

\* C2: xor involution.  A finished xor run whose input is the output of an
\* xor run on B with the same key has produced B, byte for byte.
C2_XorInvolution ==
    \A p \in Procs :
        (Done(p) /\ proc[p].mode = "xor" /\ SameKeyRoundTrip(p))
            => ToBytes(proc[p].out) = ToBytes(proc[p].prov.img)

C2_Witness ==
    \E p \in Procs :
        /\ Done(p) /\ proc[p].mode = "xor" /\ SameKeyRoundTrip(p)
        /\ Len(proc[p].img) = MaxPixels
        /\ proc[p].img # proc[p].prov.img

\* C3: the seeded shuffle of [0..N) is a bijection on [0..N): N entries, each
\* in [0..N), no value twice, for every N and every seed.
C3_ShuffleIsBijection ==
    g_pc = "shuffled" =>
        /\ Len(g_indices) = g_n
        /\ \A i \in 1..Len(g_indices) : g_indices[i] \in 0..(g_n - 1)
        /\ \A i, j \in 1..Len(g_indices) : g_indices[i] = g_indices[j] => i = j

C3_Witness ==
    /\ g_pc = "shuffled" /\ g_n = MaxPixels /\ g_seed > 0
    /\ g_indices # Range(g_n)

\* C4: permutation determinism.  Two invocations with the same key and pixel
\* count hold the same permutation, and the permutation a decrypt regenerates
\* equals the one the earlier encrypt of its input generated with that key,
\* whatever ran in between or alongside.
C4_PermutationDeterminism ==
    /\ \A p, q \in Procs :
          (Shuffled(p) /\ Shuffled(q) /\ proc[p].key = proc[q].key
                /\ proc[p].n = proc[q].n)
            => proc[p].indices = proc[q].indices
    /\ \A p \in Procs :
          (Shuffled(p) /\ SameKeyRoundTrip(p))
            => proc[p].indices = proc[p].prov.indices

\* A decrypt that ran alongside another invocation has regenerated the
\* permutation of MaxPixels pixels, while that other one holds a different one.
C4_Witness ==
    \E p, q \in Procs :
        /\ p # q
        /\ Shuffled(p) /\ SameKeyRoundTrip(p) /\ proc[p].overlap
        /\ proc[p].n = MaxPixels
        /\ NotInvolution(proc[p].indices)
        /\ Shuffled(q) /\ proc[q].n = MaxPixels
        /\ proc[q].indices # proc[p].indices

\* C5: keystream prefix law.  For L >= 0 and k >= 0 the keystream returned for
\* (P, L) is the first L bytes of keystream_bytes(P, L + k).
C5_KeystreamPrefix ==
    (ks_pc = "returned" /\ ks_length >= 0) =>
        \A k \in 0..MaxExtra :
            ks_ret = SubSeq(keystream_bytes(ks_key, ks_length + k), 1, ks_length)

\* A returned keystream whose length is more than one digest and not a
\* multiple of the digest size.
C5_Witness ==
    /\ ks_pc = "returned"
    /\ ks_length > DigestSize
    /\ ks_length % DigestSize # 0
    /\ Len(ks_ret) > 0

\* C6: for every length L >= 0 a keystream_bytes call returns, and what it
\* returns has exactly L bytes; for L = 0 it is the empty stream.
C6_KeystreamLength ==
    /\ [](( ks_pc = "returned" /\ ks_length >= 0) => Len(ks_ret) = ks_length)
    /\ []((ks_pc = "returned" /\ ks_length = 0) => ks_ret = <<>>)
    /\ ((ks_pc = "loop" /\ ks_length >= 0) ~> ks_pc = "returned")

C6_Witness ==
    /\ ks_pc = "returned"
    /\ ks_length = MaxKsLen
    /\ Len(ks_out) > ks_length

\* C7 as stated: a call with a negative length returns no keystream.
C7_NegativeLengthRejected == ~(ks_pc = "returned" /\ ks_length < 0)

\* C7 as amended: a call with a negative length raises nothing; the loop is
\* never entered and the call returns the empty keystream.
C7_NegativeLengthEmpty ==
    /\ (ks_pc = "returned" /\ ks_length < 0) => ks_ret = <<>>
    /\ (ks_pc = "loop" /\ ks_length < 0) => ks_out = <<>>

C7_Witness == ks_pc = "returned" /\ ks_length < -1 /\ ks_ret = <<>>

\* C8: for mode xor a finished invocation's output is the single xor
\* transform of its input whichever operation was asked, so encrypt and
\* decrypt of the same input and key agree; for mode swap encrypt has applied
\* the permutation and decrypt its inverse.
C8_SelectorOnlyForSwap ==
    /\ \A p \in Procs :
          (Done(p) /\ proc[p].mode = "xor")
            => proc[p].out = XorTransform(proc[p].img, proc[p].key)
    /\ \A p, q \in Procs :
          (Done(p) /\ Done(q) /\ proc[p].mode = "xor" /\ proc[q].mode = "xor"
                /\ proc[p].key = proc[q].key /\ proc[p].img = proc[q].img)
            => proc[p].out = proc[q].out
    /\ \A p \in Procs :
          (Done(p) /\ proc[p].mode = "swap") =>
              IF proc[p].operation = "encrypt"
              THEN proc[p].out = ApplyPerm(proc[p].img, proc[p].indices)
              ELSE proc[p].img = ApplyPerm(proc[p].out, proc[p].indices)

\* encrypt and decrypt in mode xor have both finished on the same image and key.
C8_Witness ==
    \E p, q \in Procs :
        /\ Done(p) /\ Done(q)
        /\ proc[p].mode = "xor" /\ proc[q].mode = "xor"
        /\ proc[p].operation = "encrypt" /\ proc[q].operation = "decrypt"
        /\ proc[p].key = proc[q].key /\ proc[p].img = proc[q].img
        /\ Len(proc[p].img) = MaxPixels
        /\ proc[p].out # proc[p].img

\* C9: interleaved invocations do not interfere.  Whatever else runs, the
\* permutation and the keystream an invocation holds are those of its own key,
\* and its output is the output of the same invocation run alone.
C9_NoInterference ==
    \A p \in Procs :
        /\ Shuffled(p) => proc[p].indices = FreshPerm(Len(proc[p].img), proc[p].key)
        /\ proc[p].pc = "xor_loop"
              => proc[p].ks = keystream_bytes(proc[p].key, Channels * Len(proc[p].img))
        /\ Done(p) => proc[p].out =
              Alone(proc[p].operation, proc[p].mode, proc[p].key, proc[p].img)

\* Two invocations with different keys have run alongside each other and
\* both have finished, one of them a swap of MaxPixels pixels.
C9_Witness ==
    \E p, q \in Procs :
        /\ p # q
        /\ Done(p) /\ Done(q) /\ proc[p].overlap /\ proc[q].overlap
        /\ proc[p].key # proc[q].key
        /\ proc[p].mode = "swap" /\ Len(proc[p].img) = MaxPixels
        /\ Len(proc[q].img) = MaxPixels

\* C10: index mapping.  Swap encrypt gives N pixels with out[i] = B[perm[i]];
\* swap decrypt gives N pixels with out[perm[i]] = B[i]; the decrypt loop
\* writes a position that was unset at every pass and leaves none unset.
C10_IndexMapping ==
    \A p \in Procs :
        /\ (Done(p) /\ proc[p].mode = "swap") =>
              /\ Len(proc[p].out) = Len(proc[p].img)
              /\ Len(proc[p].indices) = Len(proc[p].img)
              /\ \A i \in 1..Len(proc[p].img) :
                    IF proc[p].operation = "encrypt"
                    THEN proc[p].out[i] = proc[p].img[proc[p].indices[i] + 1]
                    ELSE proc[p].out[proc[p].indices[i] + 1] = proc[p].img[i]
              /\ \A j \in 1..Len(proc[p].out) : proc[p].out[j] # None
        /\ proc[p].pc = "inv_loop" =>
              Cardinality({j \in 1..Len(proc[p].data) : proc[p].data[j] # None})
                  = proc[p].i

\* Both directions have finished on MaxPixels pixels with a permutation that
\* is not its own inverse.
C10_Witness ==
    \E p, q \in Procs :
        /\ Done(p) /\ Done(q)
        /\ proc[p].mode = "swap" /\ proc[q].mode = "swap"
        /\ proc[p].operation = "encrypt" /\ proc[q].operation = "decrypt"
        /\ Len(proc[p].img) = MaxPixels /\ Len(proc[q].img) = MaxPixels
        /\ NotInvolution(proc[p].indices) /\ NotInvolution(proc[q].indices)

====
